---- MODULE Spec2Model ----
(***************************************************************************)
(* A model of tunnel.py: the module-level startup that builds the single   *)
(* WireguardServerInterface `wg`, and the Flask handler new_tunnel, run by *)
(* the request threads, which interleave at statement boundaries.          *)
(* External tools (wg, wg-quick, Caddy) answer nondeterministically.       *)
(***************************************************************************)
EXTENDS Integers, Sequences, FiniteSets, TLC

\* ------------------------------------------------------------- bounds
\* Requests accepted in one run of the process.
MaxRequests == 2
\* Calls of Client.config on one client in SpecConfig.
MaxRenders == 2

\* The request threads of the HTTP server that may run new_tunnel at once.
Threads == {"t1", "t2"}

\* ------------------------------------------------- program constants
WG_PORT == 54321
PersistentKeepalive == 21

\* ------------------------------------------------ environment inputs
\* The text "a.b.c.d/len" of TUNNEL_WG_NETWORK after _split_addr_prefix:
\* the address as a 32 bit integer and the prefix length.
\* 174393857 = 10.101.10.1, 174393856 = 10.101.10.0.
DefaultEnv ==
    [hostname |-> "tunnel.pyjam.as", caddy |-> "localhost",
     network |-> [addr |-> 174393857, prefixlen |-> 24]]

Envs ==
    { DefaultEnv,
      [hostname |-> "tunnel.example.com", caddy |-> "localhost",
       network |-> [addr |-> 174393856, prefixlen |-> 24]],
      [hostname |-> "tunnel.pyjam.as", caddy |-> "localhost",
       network |-> [addr |-> 174393856, prefixlen |-> 30]] }

\* Keys that wg genkey may print.
Keys == {"kA", "kB"}

\* The requests of a run: the port of the URL and the slug make_slug draws
\* for it. The same pair may come twice, so slugs can collide.
RequestInputs ==
    { [port |-> 8080, slug |-> "ab3f9k2p"], [port |-> 80, slug |-> "q0w9e8r7"] }

\* ------------------------------------------------------ pure helpers
Pow2(n) == 2 ^ n

\* str(IPv4Address(a)): dotted decimal.
IPv4Str(a) ==
    ToString(a \div 16777216) \o "." \o ToString((a \div 65536) % 256) \o "."
        \o ToString((a \div 256) % 256) \o "." \o ToString(a % 256)

\* IPv4Network(address) with strict=True: a network whose address has host
\* bits set is rejected with ValueError.
IPv4Network(address) ==
    LET size == Pow2(32 - address.prefixlen)
        packed == address.addr
        masked == packed - (packed % size)
    IN  IF masked # packed
        THEN [ok |-> FALSE, network_address |-> 0, prefixlen |-> 0,
              broadcast_address |-> 0]
        ELSE [ok |-> TRUE, network_address |-> packed,
              prefixlen |-> address.prefixlen,
              broadcast_address |-> packed + size - 1]

\* network.with_prefixlen
with_prefixlen(net) ==
    IPv4Str(net.network_address) \o "/" \o ToString(net.prefixlen)

\* network.hosts(): a generator over range(network + 1, broadcast); its
\* state is the next x of the range.
hosts(net) == net.network_address + 1

\* Mutants of next_ip: one that does not advance the generator, one that
\* runs past the end of the range.
next_ip_stuck(x, net) ==
    IF x < net.broadcast_address
    THEN [ok |-> TRUE, value |-> x, hosts |-> x]
    ELSE [ok |-> FALSE, value |-> 0, hosts |-> x]

next_ip_unbounded(x, net) == [ok |-> TRUE, value |-> x, hosts |-> x + 1]

\* next(self.hosts) on a generator at x: the address x and the generator
\* advanced, or StopIteration once the range is used up. The interpreter
\* runs one resumption of a generator at a time, so the step is atomic.
next_ip(x, net) ==
    IF x < net.broadcast_address
    THEN [ok |-> TRUE, value |-> x, hosts |-> x + 1]
    ELSE [ok |-> FALSE, value |-> 0, hosts |-> x]

\* WireguardServerInterface._generate_config after textwrap.dedent.
_generate_config(net, port, private_key) ==
    "\n[Interface]\n"
    \o "Address = " \o with_prefixlen(net) \o "\n"
    \o "SaveConfig = true\n"
    \o "ListenPort = " \o ToString(port) \o "\n"
    \o "PrivateKey = " \o private_key \o "\n"
    \o "PostUp = iptables -A FORWARD -i %i -j ACCEPT; iptables -t nat -A POSTROUTING -o ens12 -j MASQUERADE\n"
    \o "PostDown = iptables -D FORWARD -i %i -j ACCEPT; iptables -t nat -D POSTROUTING -o ens12 -j MASQUERADE\n"

\* Client.config after textwrap.dedent; public_key is the value the
\* public_key property returned for this call.
config(client, public_key, server_hostname, server_ip, server_wg_port) ==
    "\n[Interface]\n"
    \o "Address = " \o IPv4Str(client.ip) \o "/32\n"
    \o "PrivateKey = " \o client.private_key \o "\n"
    \o "\n[Peer]\n"
    \o "PublicKey = " \o public_key \o "\n"
    \o "AllowedIPs = " \o IPv4Str(server_ip) \o "/32\n"
    \o "Endpoint = " \o server_hostname \o ":" \o ToString(server_wg_port) \o "\n"
    \o "PersistentKeepalive = " \o ToString(PersistentKeepalive) \o "\n"

\* Mutant of route_payload: the upstream dials the server's port instead of
\* the client's forward port.
route_payload_wrong_port(server_hostname, client) ==
    [handle |-> << [handler |-> "subroute",
                    routes |-> << [handle |-> <<
                        [handler |-> "reverse_proxy",
                         upstreams |-> << [dial |-> IPv4Str(client.ip) \o ":"
                                                      \o ToString(WG_PORT)] >>] >>] >>] >>,
     match |-> << [host |-> << client.slug \o "." \o server_hostname >>] >>,
     terminal |-> TRUE]

\* The JSON payload update_reverse_proxy posts.
route_payload(server_hostname, client) ==
    [handle |-> << [handler |-> "subroute",
                    routes |-> << [handle |-> <<
                        [handler |-> "reverse_proxy",
                         upstreams |-> << [dial |-> IPv4Str(client.ip) \o ":"
                                                      \o ToString(client.port)] >>] >>] >>] >>,
     match |-> << [host |-> << client.slug \o "." \o server_hostname >>] >>,
     terminal |-> TRUE]

\* file.seek(0) and file.write(text) on the held-open "w+" handle: a write
\* overwrites from the position on and leaves what lies behind it.
file_seek(f, pos) == [f EXCEPT !.pos = pos]

file_write(f, text) ==
    LET n == Len(f.content)
        e == f.pos + Len(text)
    IN  [content |-> SubSeq(f.content, 1, f.pos) \o text
                       \o (IF e < n THEN SubSeq(f.content, e + 1, n) ELSE ""),
         pos |-> e]

\* ------------------------------------------------------------- state
VARIABLES
    env,        \* the environment the process was started with
    boot,       \* position of the module-level startup code
    bootErr,    \* the exception that ended the startup, "" if none
    network,    \* WG_NETWORK / wg.network
    wg_key,     \* wg.private_key
    wg_ip,      \* wg.ip, 0 before it is set
    wg_hosts,   \* wg.hosts: the generator's next x
    peers,      \* wg.peers
    file,       \* wg._file_handle: content on disk and position
    iface,      \* the OS-level wireguard interface and its running reloads
    routes,     \* the routes Caddy holds, in the order they were posted
    th,         \* per request thread: position in new_tunnel and locals
    nreq,       \* requests accepted so far
    allocated,  \* history: every address next_ip has returned, in order
    probe       \* SpecConfig only: one client and the texts config returned

vars == << env, boot, bootErr, network, wg_key, wg_ip, wg_hosts, peers, file,
           iface, routes, th, nreq, allocated, probe >>

Idle ==
    [pc |-> "idle", port |-> 0, slug |-> "", ip |-> 0, private_key |-> "",
     public_key |-> "", written |-> FALSE, reloaded |-> FALSE, err |-> "",
     result |-> ""]

NoNetwork == [ok |-> FALSE, network_address |-> 0, prefixlen |-> 0,
              broadcast_address |-> 0]

NoProbe ==
    [client |-> [ip |-> 0, port |-> 0, slug |-> "", private_key |-> ""],
     server_hostname |-> "", server_ip |-> 0, out |-> << >>]

Init ==
    /\ env \in Envs
    /\ boot = "import"
    /\ bootErr = ""
    /\ network = NoNetwork
    /\ wg_key = ""
    /\ wg_ip = 0
    /\ wg_hosts = 0
    /\ peers = << >>
    /\ file = [content |-> "", pos |-> 0]
    /\ iface = [state |-> "Created", reloading |-> 0, peers |-> {}]
    /\ routes = << >>
    /\ th = [t \in Threads |-> Idle]
    /\ nreq = 0
    /\ allocated = << >>
    /\ probe = NoProbe

\* ----------------------------------------------------------- startup
\* Lines 23-29: the environment is read; IPv4Network may raise.
LoadConfig ==
    /\ boot = "import"
    /\ LET net == IPv4Network(env.network)
       IN  IF net.ok
           THEN /\ network' = net
                /\ boot' = "wg_genkey"
                /\ bootErr' = ""
           ELSE /\ network' = network
                /\ boot' = "aborted"
                /\ bootErr' = "ValueError: has host bits set"
    /\ UNCHANGED << probe, env, wg_key, wg_ip, wg_hosts, peers, file, iface, routes,
                    th, nreq, allocated >>

\* Lines 75-80: fields, peers = [], private_key = _gen_private_wg_key().
WgInitGenKey ==
    /\ boot = "wg_genkey"
    /\ peers' = << >>
    /\ \/ \E k \in Keys :
            /\ wg_key' = k
            /\ boot' = "wg_alloc"
            /\ bootErr' = ""
       \/ /\ wg_key' = wg_key
          /\ boot' = "aborted"
          /\ bootErr' = "ChildProcessError: Failed to generate wireguard key"
    /\ UNCHANGED << probe, env, network, wg_ip, wg_hosts, file, iface, routes, th,
                    nreq, allocated >>

\* Lines 81-83: open(full_path, "w+") truncates the file; hosts = the
\* generator; ip = next_ip().
WgInitAlloc ==
    /\ boot = "wg_alloc"
    /\ file' = [content |-> "", pos |-> 0]
    /\ LET r == next_ip(hosts(network), network)
       IN  IF r.ok
           THEN /\ wg_ip' = r.value
                /\ wg_hosts' = r.hosts
                /\ allocated' = Append(allocated, r.value)
                /\ boot' = "wg_write"
                /\ bootErr' = ""
           ELSE /\ wg_ip' = wg_ip
                /\ wg_hosts' = r.hosts
                /\ allocated' = allocated
                /\ boot' = "aborted"
                /\ bootErr' = "StopIteration"
    /\ UNCHANGED << probe, env, network, wg_key, peers, iface, routes, th, nreq >>

\* Line 85: self.write().
WgInitWrite ==
    /\ boot = "wg_write"
    /\ file' = file_write(file_seek(file, 0),
                          _generate_config(network, WG_PORT, wg_key))
    /\ iface' = [iface EXCEPT !.state = "ConfigWritten"]
    /\ boot' = "wg_up"
    /\ UNCHANGED << probe, env, bootErr, network, wg_key, wg_ip, wg_hosts, peers,
                    routes, th, nreq, allocated >>

\* Mutant of WgInitUp: the exit status of wg-quick up is not looked at.
WgInitUp_ignore ==
    /\ boot = "wg_up"
    /\ \/ /\ iface' = [iface EXCEPT !.state = "Up"]
          /\ boot' = "serving"
          /\ bootErr' = ""
       \/ /\ iface' = iface
          /\ boot' = "serving"
          /\ bootErr' = "ChildProcessError: Failed to up interface"
    /\ UNCHANGED << probe, env, network, wg_key, wg_ip, wg_hosts, peers, file,
                    routes, th, nreq, allocated >>

\* Lines 86, 99-103: wg-quick up; a non-zero exit raises.
WgInitUp ==
    /\ boot = "wg_up"
    /\ \/ /\ iface' = [iface EXCEPT !.state = "Up"]
          /\ boot' = "serving"
          /\ bootErr' = ""
       \/ /\ iface' = iface
          /\ boot' = "aborted"
          /\ bootErr' = "ChildProcessError: Failed to up interface"
    /\ UNCHANGED << probe, env, network, wg_key, wg_ip, wg_hosts, peers, file,
                    routes, th, nreq, allocated >>

\* ------------------------------------------------------- new_tunnel
Client(l) ==
    [ip |-> l.ip, port |-> l.port, slug |-> l.slug,
     private_key |-> l.private_key]

Fail(l, e) == [l EXCEPT !.pc = "done", !.err = e]

\* `wg addconf NAME <(wg-quick strip NAME)`: the [Peer] sections of the
\* file are added to the running interface; the peers it had stay.
PeerSections(content) ==
    { i \in 1..Len(content) : /\ i + 5 <= Len(content)
                              /\ SubSeq(content, i, i + 5) = "[Peer]" }

wg_addconf(live, content) ==
    live \cup { [section |-> i] : i \in PeerSections(content) }

\* Lines 179-185: a request for /<port> is dispatched to a thread; the
\* slug is drawn.
NewTunnel(t) ==
    /\ boot = "serving"
    /\ th[t].pc = "idle"
    /\ nreq < MaxRequests
    /\ \E rq \in RequestInputs :
          th' = [th EXCEPT ![t] = [Idle EXCEPT !.pc = "next_ip",
                                                !.port = rq.port,
                                                !.slug = rq.slug]]
    /\ nreq' = nreq + 1
    /\ UNCHANGED << probe, env, boot, bootErr, network, wg_key, wg_ip, wg_hosts,
                    peers, file, iface, routes, allocated >>

\* Mutant of NextIp: next_ip also stores the address as the interface's own.
NextIp_sets_own_ip(t) ==
    /\ th[t].pc = "next_ip"
    /\ LET r == next_ip(wg_hosts, network)
       IN  /\ wg_hosts' = r.hosts
           /\ IF r.ok
              THEN /\ th' = [th EXCEPT ![t].ip = r.value,
                                       ![t].pc = "client_init"]
                   /\ allocated' = Append(allocated, r.value)
                   /\ wg_ip' = r.value
              ELSE /\ th' = [th EXCEPT ![t] = Fail(@, "StopIteration")]
                   /\ allocated' = allocated
                   /\ wg_ip' = wg_ip
    /\ UNCHANGED << probe, env, boot, bootErr, network, wg_key, peers, file,
                    iface, routes, nreq >>

\* Line 187, the argument wg.next_ip(): next(self.hosts).
NextIp(t) ==
    /\ th[t].pc = "next_ip"
    /\ LET r == next_ip(wg_hosts, network)
       IN  /\ wg_hosts' = r.hosts
           /\ IF r.ok
              THEN /\ th' = [th EXCEPT ![t].ip = r.value,
                                       ![t].pc = "client_init"]
                   /\ allocated' = Append(allocated, r.value)
              ELSE /\ th' = [th EXCEPT ![t] = Fail(@, "StopIteration")]
                   /\ allocated' = allocated
    /\ UNCHANGED << probe, env, boot, bootErr, network, wg_key, wg_ip, peers, file,
                    iface, routes, nreq >>

\* Lines 187, 41-45: Client.__init__ runs _gen_private_wg_key().
ClientInit(t) ==
    /\ th[t].pc = "client_init"
    /\ \/ \E k \in Keys :
            th' = [th EXCEPT ![t].private_key = k, ![t].pc = "add_peer"]
       \/ th' = [th EXCEPT ![t] =
                    Fail(@, "ChildProcessError: Failed to generate wireguard key")]
    /\ UNCHANGED << probe, env, boot, bootErr, network, wg_key, wg_ip, wg_hosts,
                    peers, file, iface, routes, nreq, allocated >>

\* Lines 189-190: __enter__ does nothing; add_peer appends the client.
AddPeer(t) ==
    /\ th[t].pc = "add_peer"
    /\ peers' = Append(peers, Client(th[t]))
    /\ th' = [th EXCEPT ![t].pc = "exit_seek"]
    /\ UNCHANGED << probe, env, boot, bootErr, network, wg_key, wg_ip, wg_hosts,
                    file, iface, routes, nreq, allocated >>

\* Lines 136, 121: __exit__ calls write(): seek(0).
ExitSeek(t) ==
    /\ th[t].pc = "exit_seek"
    /\ file' = file_seek(file, 0)
    /\ th' = [th EXCEPT ![t].pc = "exit_write"]
    /\ UNCHANGED << probe, env, boot, bootErr, network, wg_key, wg_ip, wg_hosts,
                    peers, iface, routes, nreq, allocated >>

\* Lines 122-123: write(self._generate_config()) and flush().
ExitWrite(t) ==
    /\ th[t].pc = "exit_write"
    /\ file' = file_write(file, _generate_config(network, WG_PORT, wg_key))
    /\ th' = [th EXCEPT ![t].pc = "reload", ![t].written = TRUE]
    /\ UNCHANGED << probe, env, boot, bootErr, network, wg_key, wg_ip, wg_hosts,
                    peers, iface, routes, nreq, allocated >>

\* Lines 137, 126-128: reload_interface() starts the shell that runs
\* wg addconf; the thread waits in subprocess.run until it exits.
ReloadStart(t) ==
    /\ th[t].pc = "reload"
    /\ iface' = [iface EXCEPT !.reloading = @ + 1]
    /\ th' = [th EXCEPT ![t].pc = "reloading"]
    /\ UNCHANGED << probe, env, boot, bootErr, network, wg_key, wg_ip, wg_hosts,
                    peers, file, routes, nreq, allocated >>

\* Mutants of ReloadInterface: a failed reload takes the peer back out of the
\* registry and truncates the file; a failed reload is swallowed (__exit__
\* returning a true value) and the handler goes on.
ReloadInterface_rollback(t) ==
    /\ th[t].pc = "reloading"
    /\ \/ /\ iface' = [iface EXCEPT !.peers = wg_addconf(@, file.content),
                                   !.reloading = @ - 1]
          /\ th' = [th EXCEPT ![t].pc = "proxy", ![t].reloaded = TRUE]
          /\ UNCHANGED << peers, file >>
       \/ /\ iface' = [iface EXCEPT !.reloading = @ - 1]
          /\ peers' = SelectSeq(peers, LAMBDA c : c # Client(th[t]))
          /\ file' = [content |-> "", pos |-> 0]
          /\ th' = [th EXCEPT ![t] =
                       Fail(@, "ChildProcessError: Failed to reload interface")]
    /\ UNCHANGED << probe, env, boot, bootErr, network, wg_key, wg_ip, wg_hosts,
                    routes, nreq, allocated >>

ReloadInterface_swallow(t) ==
    /\ th[t].pc = "reloading"
    /\ \/ /\ iface' = [iface EXCEPT !.peers = wg_addconf(@, file.content),
                                   !.reloading = @ - 1]
          /\ th' = [th EXCEPT ![t].pc = "proxy", ![t].reloaded = TRUE]
       \/ /\ iface' = [iface EXCEPT !.reloading = @ - 1]
          /\ th' = [th EXCEPT ![t].pc = "proxy"]
    /\ UNCHANGED << probe, env, boot, bootErr, network, wg_key, wg_ip, wg_hosts,
                    peers, file, routes, nreq, allocated >>

\* Lines 128-130: wg addconf exits; a non-zero exit raises and the
\* exception leaves the with block and the handler.
ReloadInterface(t) ==
    /\ th[t].pc = "reloading"
    /\ \/ /\ iface' = [iface EXCEPT !.peers = wg_addconf(@, file.content),
                                   !.reloading = @ - 1]
          /\ th' = [th EXCEPT ![t].pc = "proxy", ![t].reloaded = TRUE]
       \/ /\ iface' = [iface EXCEPT !.reloading = @ - 1]
          /\ th' = [th EXCEPT ![t] =
                       Fail(@, "ChildProcessError: Failed to reload interface")]
    /\ UNCHANGED << probe, env, boot, bootErr, network, wg_key, wg_ip, wg_hosts,
                    peers, file, routes, nreq, allocated >>

\* Lines 192, 140-167: the route is posted to Caddy; raise_for_status
\* raises on a non-success status, and then Caddy has not added the route.
UpdateReverseProxy(t) ==
    /\ th[t].pc = "proxy"
    /\ \/ /\ routes' = Append(routes, route_payload(env.hostname, Client(th[t])))
          /\ th' = [th EXCEPT ![t].pc = "config"]
       \/ /\ routes' = routes
          /\ th' = [th EXCEPT ![t] = Fail(@, "HTTPError")]
    /\ UNCHANGED << probe, env, boot, bootErr, network, wg_key, wg_ip, wg_hosts,
                    peers, file, iface, nreq, allocated >>

\* Lines 194, 47-70: client.config(...) reads the public_key property, which
\* runs `wg genkey` and returns what it prints (nothing when it fails).
ClientConfig(t) ==
    /\ th[t].pc = "config"
    /\ \E out \in Keys \cup {""} :
          th' = [th EXCEPT ![t].public_key = out,
                           ![t].result = config(Client(th[t]), out, env.hostname,
                                                wg_ip, WG_PORT),
                           ![t].pc = "done"]
    /\ UNCHANGED << probe, env, boot, bootErr, network, wg_key, wg_ip, wg_hosts,
                    peers, file, iface, routes, nreq, allocated >>

\* The response (the config text, or the error) is sent and the thread is
\* free for the next request.
Respond(t) ==
    /\ th[t].pc = "done"
    /\ th' = [th EXCEPT ![t] = Idle]
    /\ UNCHANGED << probe, env, boot, bootErr, network, wg_key, wg_ip, wg_hosts,
                    peers, file, iface, routes, nreq, allocated >>

Next ==
    \/ LoadConfig
    \/ WgInitGenKey
    \/ WgInitAlloc
    \/ WgInitWrite
    \/ WgInitUp
    \/ \E t \in Threads : NewTunnel(t)
    \/ \E t \in Threads : NextIp(t)
    \/ \E t \in Threads : ClientInit(t)
    \/ \E t \in Threads : AddPeer(t)
    \/ \E t \in Threads : ExitSeek(t)
    \/ \E t \in Threads : ExitWrite(t)
    \/ \E t \in Threads : ReloadStart(t)
    \/ \E t \in Threads : ReloadInterface(t)
    \/ \E t \in Threads : UpdateReverseProxy(t)
    \/ \E t \in Threads : ClientConfig(t)
    \/ \E t \in Threads : Respond(t)

Spec == Init /\ [][Next]_vars

\* The interpreter schedules every thread, so a step the program takes by
\* itself is eventually taken. A step that waits for wg, wg-quick or Caddy
\* (subprocess.run and requests.post are called without a timeout) is
\* taken only when the other side answers: nothing makes it fair.
Fairness ==
    /\ WF_vars(LoadConfig)
    /\ WF_vars(WgInitAlloc)
    /\ WF_vars(WgInitWrite)
    /\ \A t \in Threads :
          /\ WF_vars(NextIp(t))
          /\ WF_vars(AddPeer(t))
          /\ WF_vars(ExitSeek(t))
          /\ WF_vars(ExitWrite(t))
          /\ WF_vars(ReloadStart(t))
          /\ WF_vars(Respond(t))

SpecLive == Init /\ [][Next]_vars /\ Fairness

\* ------------------------------------------- Client.config as a function
\* One Client, as Client.__init__ leaves it, and the arguments new_tunnel
\* passes; config is then called on it up to MaxRenders times.
InitConfig ==
    /\ env = DefaultEnv
    /\ boot = "import"
    /\ bootErr = ""
    /\ network = NoNetwork
    /\ wg_key = ""
    /\ wg_ip = 0
    /\ wg_hosts = 0
    /\ peers = << >>
    /\ file = [content |-> "", pos |-> 0]
    /\ iface = [state |-> "Created", reloading |-> 0, peers |-> {}]
    /\ routes = << >>
    /\ th = [t \in Threads |-> Idle]
    /\ nreq = 0
    /\ allocated = << >>
    /\ \E ip \in {174393858, 174393859}, rq \in RequestInputs, k \in Keys,
          e \in Envs :
          probe = [client |-> [ip |-> ip, port |-> rq.port, slug |-> rq.slug,
                               private_key |-> k],
                   server_hostname |-> e.hostname,
                   server_ip |-> 174393857,
                   out |-> << >>]

\* Lines 55-70 with 47-53: one call of config; the public_key property
\* runs wg genkey again on every call.
RenderConfig ==
    /\ Len(probe.out) < MaxRenders
    /\ \E out \in Keys \cup {""} :
          probe' = [probe EXCEPT !.out =
                       Append(@, config(probe.client, out, probe.server_hostname,
                                        probe.server_ip, WG_PORT))]
    /\ UNCHANGED << env, boot, bootErr, network, wg_key, wg_ip, wg_hosts,
                    peers, file, iface, routes, th, nreq, allocated >>

NextConfig == RenderConfig

SpecConfig == InitConfig /\ [][NextConfig]_vars

\* ============================================================ claims
InFlight(t) == th[t].pc \notin {"idle", "next_ip"} /\ th[t].ip # 0

\* C1: the addresses handed out (the server's, then one per provisioning
\* call) are strictly increasing host addresses of the block, hence pairwise
\* distinct; the first is the server's own, no peer holds the server's
\* address and no two peers hold the same one.
C1_AddressesDistinctIncreasing ==
    /\ \A i, j \in 1..Len(allocated) : i < j => allocated[i] < allocated[j]
    /\ \A i \in 1..Len(allocated) :
          /\ network.network_address < allocated[i]
          /\ allocated[i] < network.broadcast_address
    /\ wg_ip # 0 => allocated[1] = wg_ip
    /\ \A i \in 1..Len(peers) :
          /\ peers[i].ip # wg_ip
          /\ \E k \in 2..Len(allocated) : allocated[k] = peers[i].ip
          /\ \A j \in 1..Len(peers) : i # j => peers[i].ip # peers[j].ip

\* C1 witness: the server and two peers hold three addresses.
C1_Witness ==
    /\ Len(allocated) = 3
    /\ Len(peers) = 2
    /\ wg_ip = allocated[1]

\* C2: two requests that are in flight at the same time hold different
\* addresses, whatever the interleaving of their next_ip calls.
C2_ConcurrentRequestsDifferentAddresses ==
    \A t1, t2 \in Threads :
        (t1 # t2 /\ InFlight(t1) /\ InFlight(t2)) => th[t1].ip # th[t2].ip

\* C2 witness: both requests have taken their address and neither has gone
\* any further.
C2_Witness ==
    /\ th["t1"].pc = "client_init"
    /\ th["t2"].pc = "client_init"

\* C3: provisioning is mutually exclusive: at most one request at a time is
\* between its address allocation and the end of its reload, and between a
\* request's config write and its reload no other request appends a peer or
\* writes the file.
InSection(t) ==
    th[t].pc \in {"client_init", "add_peer", "exit_seek", "exit_write", "reload",
                  "reloading"}

C3_MutualExclusion ==
    /\ Cardinality({t \in Threads : InSection(t)}) <= 1
    /\ \A t \in Threads :
          th[t].pc \in {"reload", "reloading"} =>
              \A u \in Threads \ {t} : th[u].pc \notin {"exit_seek", "exit_write"}

\* C4: once the generator is used up, a request that reaches next_ip fails
\* with StopIteration in a step that changes neither the registry, the file,
\* the interface, the routes nor the generator, and the generator stays used
\* up, so every later request fails the same way.
Exhausted == boot = "serving" /\ wg_hosts >= network.broadcast_address

C4_ExhaustedAllocationFails ==
    [][ Exhausted =>
          /\ Exhausted'
          /\ \A t \in Threads :
                (th[t].pc = "next_ip" /\ th'[t] # th[t]) =>
                    /\ th'[t] = [th[t] EXCEPT !.pc = "done",
                                              !.err = "StopIteration"]
                    /\ UNCHANGED << peers, file, iface, routes, wg_hosts,
                                    wg_ip, allocated >> ]_vars

\* C4 witness: a request has failed with StopIteration on the used-up block.
C4_Witness ==
    /\ Exhausted
    /\ \E t \in Threads : th[t].pc = "done" /\ th[t].err = "StopIteration"

\* C5: a request ends with the reload error exactly when it failed at the
\* reload step; its peer is then in the registry, the file still holds the
\* config written before the reload, and no client config is returned.
ReloadError == "ChildProcessError: Failed to reload interface"

ServerConfig == _generate_config(network, WG_PORT, wg_key)

C5_ReloadFailureKeepsPeerAndFile ==
    \A t \in Threads :
        /\ (th[t].pc = "done" /\ th[t].written /\ ~th[t].reloaded)
              <=> (th[t].pc = "done" /\ th[t].err = ReloadError)
        /\ (th[t].pc = "done" /\ th[t].err = ReloadError) =>
              /\ \E i \in 1..Len(peers) : peers[i] = Client(th[t])
              /\ Len(file.content) >= Len(ServerConfig)
              /\ SubSeq(file.content, 1, Len(ServerConfig)) = ServerConfig
              /\ th[t].result = ""

\* C5 witness: a request has ended with the reload error.
C5_Witness ==
    \E t \in Threads : th[t].pc = "done" /\ th[t].err = ReloadError

\* C6: a request that ends with the proxy's error has its peer in the
\* registry, has written the config and has had its reload succeed; no route
\* for its peer is registered and no client config is returned. A request
\* whose reload succeeded can only fail with the proxy's error.
C6_ProxyFailureLeavesTunnelLive ==
    \A t \in Threads :
        /\ (th[t].pc = "done" /\ th[t].err = "HTTPError") =>
              /\ \E i \in 1..Len(peers) : peers[i] = Client(th[t])
              /\ th[t].written
              /\ th[t].reloaded
              /\ Len(file.content) >= Len(ServerConfig)
              /\ th[t].result = ""
              /\ \A i \in 1..Len(routes) :
                    routes[i] # route_payload(env.hostname, Client(th[t]))
        /\ (th[t].pc = "done" /\ th[t].reloaded /\ th[t].result = "") =>
              th[t].err = "HTTPError"

\* C6 witness: a request has ended with the proxy's error.
C6_Witness ==
    \E t \in Threads : th[t].pc = "done" /\ th[t].err = "HTTPError"

\* C7: any two calls of Client.config on the same client with the same
\* server arguments return the same text.
C7_ConfigIdempotent ==
    \A i, j \in 1..Len(probe.out) : probe.out[i] = probe.out[j]

\* C8: the config returned for a peer holds the client's address as a /32,
\* the client's private key, the public key derived from the server's private
\* key, the endpoint hostname:port and a keepalive of 21.
C8_ConfigCarriesServerPublicKey ==
    \A t \in Threads :
        (th[t].pc = "done" /\ th[t].err = "") =>
            LET server_public_key == "pubkey(" \o wg_key \o ")"
            IN  th[t].result =
                    "\n[Interface]\n"
                    \o "Address = " \o IPv4Str(th[t].ip) \o "/32\n"
                    \o "PrivateKey = " \o th[t].private_key \o "\n"
                    \o "\n[Peer]\n"
                    \o "PublicKey = " \o server_public_key \o "\n"
                    \o "AllowedIPs = " \o IPv4Str(wg_ip) \o "/32\n"
                    \o "Endpoint = " \o env.hostname \o ":54321\n"
                    \o "PersistentKeepalive = 21\n"

\* C9: the network 10.101.10.1/24 is accepted, the server takes the first
\* host of the block and the k-th address handed out is the k-th host:
\* 10.101.10.1, then 10.101.10.2, then 10.101.10.3.
C9_FirstHostsInOrder ==
    /\ env.network = [addr |-> 174393857, prefixlen |-> 24] =>
          (boot = "aborted" => bootErr # "ValueError: has host bits set")
    /\ \A k \in 1..Len(allocated) :
          allocated[k] = (env.network.addr
                            - (env.network.addr % Pow2(32 - env.network.prefixlen))) + k
    /\ wg_ip # 0 => wg_ip = allocated[1]

\* C10: a request that has posted its route has a route at the proxy that
\* matches exactly the host slug.hostname, reverse-proxies to the address and
\* forward port of its own peer, and is terminal.
C10_RouteMatchesPeer ==
    \A t \in Threads :
        (th[t].pc = "config" \/ (th[t].pc = "done" /\ th[t].err = "")) =>
            /\ \E i \in 1..Len(routes) :
                  /\ routes[i].match =
                        << [host |-> << th[t].slug \o "." \o env.hostname >>] >>
                  /\ routes[i].handle =
                        << [handler |-> "subroute",
                            routes |-> << [handle |-> <<
                                [handler |-> "reverse_proxy",
                                 upstreams |-> <<
                                    [dial |-> IPv4Str(th[t].ip) \o ":"
                                                \o ToString(th[t].port)] >>] >>] >> ] >>
                  /\ routes[i].terminal = TRUE
            /\ (/\ env.hostname = "tunnel.example.com"
                /\ th[t].slug = "ab3f9k2p"
                /\ th[t].ip = 174393858
                /\ th[t].port = 8080) =>
                  \E i \in 1..Len(routes) :
                      /\ routes[i].match[1].host[1] = "ab3f9k2p.tunnel.example.com"
                      /\ routes[i].handle[1].routes[1].handle[1].upstreams[1].dial
                            = "10.101.10.2:8080"

\* C10 witness: the route of slug ab3f9k2p, host tunnel.example.com, address
\* 10.101.10.2 and port 8080 has been posted.
C10_Witness ==
    \E t \in Threads :
        /\ th[t].pc = "config"
        /\ env.hostname = "tunnel.example.com"
        /\ th[t].slug = "ab3f9k2p"
        /\ th[t].ip = 174393858
        /\ th[t].port = 8080

\* C11: whenever no request is in flight, the addresses taken from the
\* generator are the server's one plus one per peer of the registry: a
\* request that fails before its peer is added has consumed no address.
Quiescent == boot = "serving" /\ \A t \in Threads : th[t].pc = "idle"

C11_OneAddressPerPeer ==
    Quiescent =>
        /\ Len(allocated) = 1 + Len(peers)
        /\ wg_hosts = hosts(network) + 1 + Len(peers)

\* C12: every request that has started eventually completes or fails, even
\* when an external call never answers.
C12_RequestsTerminate ==
    \A t \in Threads : (th[t].pc \notin {"idle", "done"}) ~> (th[t].pc = "done")

\* C13: no client config is rendered or returned with a key that came from
\* a failed call of the external primitive: every returned config carries a
\* private key and a public key that wg printed.
C13_NoDefaultedKey ==
    \A t \in Threads :
        th[t].result # "" =>
            /\ th[t].private_key \in Keys
            /\ th[t].public_key \in Keys

\* C14: the interface moves only along Created -> ConfigWritten -> Up ->
\* (Reloading <-> Up): the config is on disk before the interface is brought
\* up, a reload is started only while the interface is Up and after the
\* request has written the config, and when a reload ends the interface is
\* Up again.
IfaceState == IF iface.reloading > 0 THEN "Reloading" ELSE iface.state

C14_InterfaceLifecycle ==
    [][ /\ IfaceState' # IfaceState =>
              << IfaceState, IfaceState' >> \in
                  { << "Created", "ConfigWritten" >>, << "ConfigWritten", "Up" >>,
                    << "Up", "Reloading" >>, << "Reloading", "Up" >> }
        /\ IfaceState' = "ConfigWritten" => file'.content = ServerConfig'
        /\ \A t \in Threads :
              /\ (th[t].pc = "reload" /\ th'[t].pc = "reloading") =>
                    (IfaceState = "Up" /\ th[t].written)
              /\ (th[t].pc = "reloading" /\ th'[t].pc # "reloading") =>
                    IfaceState' = "Up" ]_vars

\* C15: once a startup step has failed the process is aborted and serves
\* nothing: no request is accepted, no address is handed to a peer, no peer
\* is added, no reload runs and no route is registered.
C15_StartupFailureIsFatal ==
    bootErr # "" =>
        /\ boot = "aborted"
        /\ nreq = 0
        /\ \A t \in Threads : th[t] = Idle
        /\ Len(allocated) <= 1
        /\ peers = << >>
        /\ iface.reloading = 0
        /\ iface.peers = {}
        /\ routes = << >>

\* C15 witness: bringing the interface up has failed.
C15_Witness ==
    /\ boot = "aborted"
    /\ bootErr = "ChildProcessError: Failed to up interface"

\* C16: a request generates the client identity, then allocates the address,
\* then adds the peer, writes the config and reloads, then registers the
\* route, then renders the config; no step starts before the one before it
\* has finished, and route and config come only after a successful reload.
HasPeer(t) == \E i \in 1..Len(peers) : peers[i] = Client(th[t])

HasRoute(t) ==
    \E i \in 1..Len(routes) : routes[i] = route_payload(env.hostname, Client(th[t]))

C16_StepOrder ==
    \A t \in Threads :
        /\ th[t].ip # 0 => th[t].private_key # ""
        /\ HasPeer(t) => (th[t].ip # 0 /\ th[t].private_key # "")
        /\ th[t].written => HasPeer(t)
        /\ th[t].pc = "reloading" => th[t].written
        /\ th[t].reloaded => th[t].written
        /\ HasRoute(t) => th[t].reloaded
        /\ th[t].result # "" => HasRoute(t)

\* C17: the registry only grows by appending, and the peers lie in it in the
\* order in which their addresses were allocated: the addresses ascend
\* along the list.
C17_PeersInAllocationOrder ==
    \A i, j \in 1..Len(peers) : i < j => peers[i].ip < peers[j].ip

\* C18: after a request whose reload succeeded the running interface has
\* the peer of that request.
C18_ReloadAppliesPeer ==
    \A t \in Threads : th[t].reloaded => iface.peers # {}

\* C19: once the interface is initialised no step changes its network, its
\* private key or its own address (name and listen port are constants), nor
\* the environment they came from.
C19_ServerIdentityImmutable ==
    [][ boot = "serving" =>
          /\ network' = network
          /\ wg_key' = wg_key
          /\ wg_ip' = wg_ip
          /\ env' = env ]_vars

\* C19 witness: one request has succeeded and another has failed.
C19_Witness ==
    /\ th["t1"].pc = "done" /\ th["t1"].err = ""
    /\ th["t2"].pc = "done" /\ th["t2"].err # ""

\* C20: every route at the proxy is the route of exactly one peer of the
\* registry (its host is that peer's slug under the hostname, its upstream
\* that peer's address and forward port), and no two routes are for the same
\* peer.
C20_RoutesBelongToPeers ==
    /\ \A i \in 1..Len(routes) :
          Cardinality({ j \in 1..Len(peers) :
              /\ routes[i].match[1].host[1] = peers[j].slug \o "." \o env.hostname
              /\ routes[i].handle[1].routes[1].handle[1].upstreams[1].dial
                    = IPv4Str(peers[j].ip) \o ":" \o ToString(peers[j].port) }) = 1
    /\ \A i, k \in 1..Len(routes) :
          i # k => routes[i].handle[1].routes[1].handle[1].upstreams[1].dial
                     # routes[k].handle[1].routes[1].handle[1].upstreams[1].dial

\* C20 witness: two peers with the same slug each have their route.
C20_Witness ==
    /\ Len(routes) = 2
    /\ routes[1].match = routes[2].match
====
